---- MODULE Spec2Model ----
(***************************************************************************)
(* A model of the attribute builder of the HDF5 binding                    *)
(* (src/src/hl/attribute.rs) and of its build script (src/build.rs).       *)
(*                                                                         *)
(* The native library is modelled by its identifier table: a reference     *)
(* count and an object description per identifier.  Handles, the global    *)
(* library lock, datatypes, dataspaces and the accessors of a created      *)
(* attribute live in files of the crate that are not part of the sources   *)
(* at hand; their definitions below follow the documented behaviour.       *)
(***************************************************************************)
EXTENDS Integers, Sequences, FiniteSets, TLC

(* ------------------------------ bounds -------------------------------- *)
NThreads == 2       \* threads of the concurrent specification
MaxBuilders == 2    \* builder slots (a builder and one clone)
MaxRefs == 2        \* Group / Dataset wrappers the caller holds per object
MaxRank == 2        \* longest shape passed to create
MaxDim == 2         \* largest extent of one dimension
MaxVars == 2        \* environment variables seen by the build script

VARIABLES
    refcount,   \* native: identifier -> reference count (0: not a valid id)
    obj,        \* native: identifier -> description of the object behind it
    lock,       \* the set of threads holding the global library lock
    objRefs,    \* Group / Dataset wrappers the caller holds, per identifier
    builders,   \* builder slot -> AttributeBuilder fields, or NoBuilder
    threads,    \* the threads that run
    pc,         \* thread -> position in the operation it executes
    loc,        \* thread -> locals of the operation it executes
    env,        \* build script: the names of the environment variables
    ix,         \* build script: how many of them the loop has visited
    out         \* build script: the lines printed so far

vars == <<refcount, obj, lock, objRefs, builders, threads, pc, loc, env, ix, out>>

(* ------------------------- native identifiers ------------------------- *)
H5I_INVALID_HID == -1
GroupIds == {1}                          \* the Group the caller opened
DatasetIds == {2}                        \* the Dataset the caller opened
ParentIds == GroupIds \cup DatasetIds
PoolIds == 3..(2 + 3 * NThreads)         \* identifiers the library hands out
Ids == ParentIds \cup PoolIds
Threads == 1..NThreads
Builders == 1..MaxBuilders

NUL == "NUL"
Names == {<<"a">>, <<"a", NUL, "b">>}
Shapes == UNION {[1..n -> 0..MaxDim] : n \in 0..MaxRank}

NoObj == [kind |-> "none"]
H5P_DEFAULT == "H5P_DEFAULT"

\* A fresh identifier: the library never hands out one that is still valid.
NewId(rc) == CHOOSE i \in PoolIds : rc[i] = 0 /\ \A j \in PoolIds : rc[j] = 0 => i <= j

H5Iinc_ref(rc, id) == [rc EXCEPT ![id] = @ + 1]
H5Idec_ref(rc, id) == [rc EXCEPT ![id] = @ - 1]
\* The object behind an identifier is released when its count reaches zero.
Released(rc, ob, id) == IF rc[id] = 0 THEN [ob EXCEPT ![id] = NoObj] ELSE ob

(* ------------------------------ Result<T> ----------------------------- *)
Ok(id) == [ok |-> TRUE, id |-> id, err |-> "none"]
Err(e) == [ok |-> FALSE, id |-> H5I_INVALID_HID, err |-> e]
NoResult == [ok |-> FALSE, id |-> H5I_INVALID_HID, err |-> "unset"]

(* ------------------------------- Handle ------------------------------- *)
is_valid_user_id(rc, id) == id \in Ids /\ rc[id] > 0
\* Handle::try_new wraps a valid identifier without touching its count.
HandleTryNew(rc, id) == IF is_valid_user_id(rc, id) THEN Ok(id) ELSE Err("InvalidHandle")
\* Handle::incref, Handle::decref (the latter is what Drop runs).
HandleIncref(rc, id) == IF is_valid_user_id(rc, id) THEN H5Iinc_ref(rc, id) ELSE rc
HandleDecref(rc, id) == IF is_valid_user_id(rc, id) THEN H5Idec_ref(rc, id) ELSE rc
\* Clone of Result<Handle>: an Ok handle is cloned (incref), an Err is copied.
ResultClone(rc, h) == IF h.ok THEN HandleIncref(rc, h.id) ELSE rc
ResultDrop(rc, h) == IF h.ok THEN HandleDecref(rc, h.id) ELSE rc

(* ------------------------- the global library lock -------------------- *)
\* h5lock!: the block runs with the library's global mutex held.
Acquire(t) == lock = {} /\ lock' = {t}
Release(t) == lock' = lock \ {t}
\* A locked call that is one step of the caller (Handle::clone, Handle::drop).
LockFree == lock = {}

(* ------------------------------ builders ------------------------------ *)
NoBuilder == [set |-> FALSE]
FiltersDefault == "Filters::default"
Idle == "idle"
NoLoc ==
    [p |-> H5I_INVALID_HID, handle |-> NoResult, rc0 |-> <<>>, b |-> 0,
     name |-> <<>>, shape |-> <<>>, dtFail |-> FALSE, dsFail |-> FALSE,
     desc |-> "none", dt |-> H5I_INVALID_HID, ds |-> H5I_INVALID_HID,
     cname |-> <<>>, par |-> H5I_INVALID_HID, res |-> NoResult, calls |-> 0,
     snap |-> NoBuilder]

NewPcs == {"new_try", "new_incref", "new_build"}
NfdPcs == {"nfd_try", "nfd_incref", "nfd_build"}
FinPcs == {"fin_datatype", "fin_parent", "fin_dataspace", "fin_name",
           "fin_h5acreate2", "fin_exit", "fin_unlock"}
CreatePcs == {"fin_lock"} \cup FinPcs
LockedPcs == NewPcs \cup NfdPcs \cup FinPcs

\* Wrappers lent to a call in progress (&Group, &Dataset, &self) cannot be
\* dropped or mutated by anyone until the call returns.
Lent(p) == Cardinality({t \in threads : pc[t] \in NewPcs \cup NfdPcs /\ loc[t].p = p})
InUse(b) == \E t \in threads : pc[t] \in CreatePcs /\ loc[t].b = b

Reserved(b) == \E t \in threads : pc[t] \in NewPcs \cup NfdPcs /\ loc[t].b = b
\* The slot a new builder is stored in: the first one that is free.
Free(b) == builders[b] = NoBuilder /\ ~Reserved(b)
HasFreeSlot == \E b \in Builders : Free(b)
FreeSlot == CHOOSE b \in Builders : Free(b) /\ \A c \in Builders : Free(c) => b <= c

(* --------------- Group / Dataset wrappers of the caller --------------- *)
\* Clone of a Group or Dataset: Handle::clone increments the native count.
CloneObj(t, p) ==
    /\ pc[t] = Idle /\ LockFree
    /\ objRefs[p] > 0 /\ objRefs[p] < MaxRefs
    /\ refcount' = HandleIncref(refcount, p)
    /\ objRefs' = [objRefs EXCEPT ![p] = @ + 1]
    /\ UNCHANGED <<obj, lock, builders, threads, pc, loc, env, ix, out>>

\* Drop of a Group or Dataset: Handle::drop decrements the native count.
DropObj(t, p) ==
    /\ pc[t] = Idle /\ LockFree
    /\ objRefs[p] > Lent(p)
    /\ refcount' = HandleDecref(refcount, p)
    /\ obj' = Released(refcount', obj, p)
    /\ objRefs' = [objRefs EXCEPT ![p] = @ - 1]
    /\ UNCHANGED <<lock, builders, threads, pc, loc, env, ix, out>>

(* ------------- AttributeBuilder::new / new_from_dataset --------------- *)
\* h5lock!({ ... : the constructor takes the lock for its whole body.
Enter(t, p, to) ==
    /\ pc[t] = Idle
    /\ HasFreeSlot
    /\ Acquire(t)
    /\ pc' = [pc EXCEPT ![t] = to]
    /\ loc' = [loc EXCEPT ![t] = [NoLoc EXCEPT !.p = p, !.b = FreeSlot, !.rc0 = refcount]]
    /\ UNCHANGED <<refcount, obj, objRefs, builders, threads, env, ix, out>>

\* let handle = Handle::try_new(parent.id());
TryNew(t, from, to) ==
    /\ pc[t] = from
    /\ loc' = [loc EXCEPT ![t].handle = HandleTryNew(refcount, loc[t].p)]
    /\ pc' = [pc EXCEPT ![t] = to]
    /\ UNCHANGED <<refcount, obj, lock, objRefs, builders, threads, env, ix, out>>

\* if let Ok(ref handle) = handle { handle.incref(); }
Incref(t, from, to) ==
    /\ pc[t] = from
    /\ refcount' = IF loc[t].handle.ok
                   THEN HandleIncref(refcount, loc[t].handle.id)
                   ELSE refcount
    /\ pc' = [pc EXCEPT ![t] = to]
    /\ UNCHANGED <<obj, lock, objRefs, builders, threads, loc, env, ix, out>>

\* Self { packed: false, filters: default, parent: handle, track_times: false }
Build(t, from) ==
    /\ pc[t] = from
    /\ builders' = [builders EXCEPT ![loc[t].b] =
                       [set |-> TRUE, packed |-> FALSE, filters |-> FiltersDefault,
                        parent |-> loc[t].handle, track_times |-> FALSE]]
    /\ Release(t)
    /\ pc' = [pc EXCEPT ![t] = Idle]
    /\ loc' = [loc EXCEPT ![t] = NoLoc]
    /\ UNCHANGED <<refcount, obj, objRefs, threads, env, ix, out>>

\* The caller passes a Group it holds, or a Group whose identifier is invalid.
GroupArgs == {g \in GroupIds : objRefs[g] > 0} \cup {H5I_INVALID_HID}
DatasetArgs == {d \in DatasetIds : objRefs[d] > 0} \cup {H5I_INVALID_HID}

\* Mutant: the constructor runs without waiting for the library lock.
NewLockUnlocked(t, p) ==
    /\ p \in GroupArgs
    /\ pc[t] = Idle
    /\ HasFreeSlot
    /\ lock' = lock \cup {t}
    /\ pc' = [pc EXCEPT ![t] = "new_try"]
    /\ loc' = [loc EXCEPT ![t] = [NoLoc EXCEPT !.p = p, !.b = FreeSlot, !.rc0 = refcount]]
    /\ UNCHANGED <<refcount, obj, objRefs, builders, threads, env, ix, out>>

NewLock(t, p) == p \in GroupArgs /\ Enter(t, p, "new_try")
NewTryNew(t) == TryNew(t, "new_try", "new_incref")
\* Mutant: the handle is stored without incrementing the reference count.
NewIncrefSkipped(t) ==
    /\ pc[t] = "new_incref"
    /\ pc' = [pc EXCEPT ![t] = "new_build"]
    /\ UNCHANGED <<refcount, obj, lock, objRefs, builders, threads, loc, env, ix, out>>

NewIncref(t) == Incref(t, "new_incref", "new_build")
NewReturn(t) == Build(t, "new_build")

NfdLock(t, p) == p \in DatasetArgs /\ Enter(t, p, "nfd_try")
NfdTryNew(t) == TryNew(t, "nfd_try", "nfd_incref")
NfdIncref(t) == Incref(t, "nfd_incref", "nfd_build")
NfdReturn(t) == Build(t, "nfd_build")

(* ------------------------ setters, Clone, Drop ------------------------ *)
Packed(t, b, v) ==
    /\ pc[t] = Idle
    /\ builders[b] # NoBuilder /\ ~InUse(b)
    /\ builders' = [builders EXCEPT ![b].packed = v]
    /\ UNCHANGED <<refcount, obj, lock, objRefs, threads, pc, loc, env, ix, out>>

TrackTimes(t, b, v) ==
    /\ pc[t] = Idle
    /\ builders[b] # NoBuilder /\ ~InUse(b)
    /\ builders' = [builders EXCEPT ![b].track_times = v]
    /\ UNCHANGED <<refcount, obj, lock, objRefs, threads, pc, loc, env, ix, out>>

\* #[derive(Clone)]: every field is cloned, the parent by Result<Handle>::clone.
CloneBuilder(t, b) ==
    /\ pc[t] = Idle /\ LockFree
    /\ builders[b] # NoBuilder
    /\ HasFreeSlot
    /\ refcount' = ResultClone(refcount, builders[b].parent)
    /\ builders' = [builders EXCEPT ![FreeSlot] = builders[b]]
    /\ UNCHANGED <<obj, lock, objRefs, threads, pc, loc, env, ix, out>>

\* Drop of a builder drops its fields, the parent handle among them.
DropBuilder(t, b) ==
    /\ pc[t] = Idle /\ LockFree
    /\ builders[b] # NoBuilder /\ ~InUse(b)
    /\ refcount' = ResultDrop(refcount, builders[b].parent)
    /\ obj' = IF builders[b].parent.ok
              THEN Released(refcount', obj, builders[b].parent.id)
              ELSE obj
    /\ builders' = [builders EXCEPT ![b] = NoBuilder]
    /\ UNCHANGED <<lock, objRefs, threads, pc, loc, env, ix, out>>

(* ------------------- helpers of AttributeBuilder::finalize ------------ *)
\* to_cstring: CString::new fails on an interior NUL, else appends the NUL.
HasNul(name) == \E i \in 1..Len(name) : name[i] = NUL
to_cstring(name) == IF HasNul(name) THEN <<>> ELSE Append(name, NUL)
\* What the C library reads behind name.as_ptr(): the bytes before the NUL.
RECURSIVE CStr(_)
CStr(c) == IF c = <<>> \/ Head(c) = NUL THEN <<>> ELSE <<Head(c)>> \o CStr(Tail(c))

\* <T as H5Type>::type_descriptor().to_packed_repr() / .to_c_repr()
TypeDescriptor(packed) == IF packed THEN "packed" ELSE "c"

\* Datatype::from_descriptor / Dataspace::try_new: a new native object of
\* reference count one, owned by the wrapper that is returned.
Create(rc, id) == [rc EXCEPT ![id] = 1]
DatatypeObj(desc) == [kind |-> "datatype", repr |-> desc]
DataspaceObj(extents) == [kind |-> "dataspace", dims |-> extents]

\* H5Acreate2(loc_id, name, type_id, space_id, acpl_id, aapl_id) succeeds only
\* on valid identifiers, and may fail for reasons of the library's own.
H5Acreate2Valid(rc, ob, loc_id, type_id, space_id) ==
    /\ is_valid_user_id(rc, loc_id)
    /\ is_valid_user_id(rc, type_id) /\ ob[type_id].kind = "datatype"
    /\ is_valid_user_id(rc, space_id) /\ ob[space_id].kind = "dataspace"
AttributeObj(ob, loc_id, cname, type_id, space_id, acpl_id, aapl_id) ==
    [kind |-> "attribute", parent |-> loc_id, name |-> CStr(cname),
     repr |-> ob[type_id].repr, dims |-> ob[space_id].dims,
     acpl |-> acpl_id, aapl |-> aapl_id]

(* --------------- AttributeBuilder::create and finalize ---------------- *)
\* create(name, shape) calls finalize, which computes the type descriptor
\* before it takes the lock.  dtFail and dsFail say whether the library will
\* refuse to build the datatype and the dataspace of this call.
CreateCall(t, b, name, shape, dtFail, dsFail) ==
    /\ pc[t] = Idle
    /\ builders[b] # NoBuilder
    /\ pc' = [pc EXCEPT ![t] = "fin_lock"]
    /\ loc' = [loc EXCEPT ![t] =
                [NoLoc EXCEPT !.b = b, !.name = name, !.shape = shape,
                              !.dtFail = dtFail, !.dsFail = dsFail,
                              !.desc = TypeDescriptor(builders[b].packed)]]
    /\ UNCHANGED <<refcount, obj, lock, objRefs, builders, threads, env, ix, out>>

\* h5lock!({
FinLock(t) ==
    /\ pc[t] = "fin_lock"
    /\ Acquire(t)
    /\ pc' = [pc EXCEPT ![t] = "fin_datatype"]
    /\ loc' = [loc EXCEPT ![t].snap = builders[loc[t].b], ![t].rc0 = refcount]
    /\ UNCHANGED <<refcount, obj, objRefs, builders, threads, env, ix, out>>

\* A step that fails returns early: res is the error, the rest is skipped.
Fail(t, e) ==
    /\ loc' = [loc EXCEPT ![t].res = Err(e)]
    /\ pc' = [pc EXCEPT ![t] = "fin_exit"]

\* let datatype = Datatype::from_descriptor(&type_descriptor)?;
FinDatatype(t) ==
    /\ pc[t] = "fin_datatype"
    /\ IF loc[t].dtFail
       THEN Fail(t, "datatype") /\ UNCHANGED <<refcount, obj>>
       ELSE LET id == NewId(refcount) IN
            /\ refcount' = Create(refcount, id)
            /\ obj' = [obj EXCEPT ![id] = DatatypeObj(loc[t].desc)]
            /\ loc' = [loc EXCEPT ![t].dt = id]
            /\ pc' = [pc EXCEPT ![t] = "fin_parent"]
    /\ UNCHANGED <<lock, objRefs, builders, threads, env, ix, out>>

\* Mutant: a stored error is not returned, the call goes on without a parent.
FinParentUnchecked(t) ==
    /\ pc[t] = "fin_parent"
    /\ loc' = [loc EXCEPT ![t].par = builders[loc[t].b].parent.id]
    /\ pc' = [pc EXCEPT ![t] = "fin_dataspace"]
    /\ UNCHANGED <<refcount, obj, lock, objRefs, builders, threads, env, ix, out>>

\* let parent = try_ref_clone!(self.parent); the handle is borrowed, a
\* stored error is cloned and returned.
FinParent(t) ==
    /\ pc[t] = "fin_parent"
    /\ LET parent == builders[loc[t].b].parent IN
       IF parent.ok
       THEN /\ loc' = [loc EXCEPT ![t].par = parent.id]
            /\ pc' = [pc EXCEPT ![t] = "fin_dataspace"]
       ELSE Fail(t, parent.err)
    /\ UNCHANGED <<refcount, obj, lock, objRefs, builders, threads, env, ix, out>>

\* Mutant: the dataspace is built without the extents (a scalar dataspace).
FinDataspaceScalar(t) ==
    /\ pc[t] = "fin_dataspace"
    /\ IF loc[t].dsFail
       THEN Fail(t, "dataspace") /\ UNCHANGED <<refcount, obj>>
       ELSE LET id == NewId(refcount) IN
            /\ refcount' = Create(refcount, id)
            /\ obj' = [obj EXCEPT ![id] = DataspaceObj(<<>>)]
            /\ loc' = [loc EXCEPT ![t].ds = id]
            /\ pc' = [pc EXCEPT ![t] = "fin_name"]
    /\ UNCHANGED <<lock, objRefs, builders, threads, env, ix, out>>

\* let dataspace = Dataspace::try_new(extents, false)?;
FinDataspace(t) ==
    /\ pc[t] = "fin_dataspace"
    /\ IF loc[t].dsFail
       THEN Fail(t, "dataspace") /\ UNCHANGED <<refcount, obj>>
       ELSE LET id == NewId(refcount) IN
            /\ refcount' = Create(refcount, id)
            /\ obj' = [obj EXCEPT ![id] = DataspaceObj(loc[t].shape)]
            /\ loc' = [loc EXCEPT ![t].ds = id]
            /\ pc' = [pc EXCEPT ![t] = "fin_name"]
    /\ UNCHANGED <<lock, objRefs, builders, threads, env, ix, out>>

\* Mutant: the name is handed over as it is, an interior NUL is not an error.
FinNameUnchecked(t) ==
    /\ pc[t] = "fin_name"
    /\ loc' = [loc EXCEPT ![t].cname = Append(loc[t].name, NUL)]
    /\ pc' = [pc EXCEPT ![t] = "fin_h5acreate2"]
    /\ UNCHANGED <<refcount, obj, lock, objRefs, builders, threads, env, ix, out>>

\* let name = to_cstring(name)?;
FinName(t) ==
    /\ pc[t] = "fin_name"
    /\ IF HasNul(loc[t].name)
       THEN Fail(t, "cstring")
       ELSE /\ loc' = [loc EXCEPT ![t].cname = to_cstring(loc[t].name)]
            /\ pc' = [pc EXCEPT ![t] = "fin_h5acreate2"]
    /\ UNCHANGED <<refcount, obj, lock, objRefs, builders, threads, env, ix, out>>

\* Mutant: a failed H5Acreate2 is tried a second time.
FinH5Acreate2Retry(t) ==
    /\ pc[t] = "fin_h5acreate2"
    /\ \E nativeOk \in BOOLEAN :
        IF nativeOk /\ H5Acreate2Valid(refcount, obj, loc[t].par, loc[t].dt, loc[t].ds)
        THEN LET id == NewId(refcount) IN
             /\ refcount' = Create(refcount, id)
             /\ obj' = [obj EXCEPT ![id] =
                          AttributeObj(obj, loc[t].par, loc[t].cname, loc[t].dt,
                                       loc[t].ds, H5P_DEFAULT, H5P_DEFAULT)]
             /\ loc' = [loc EXCEPT ![t].res = Ok(id), ![t].calls = @ + 1]
        ELSE /\ loc' = [loc EXCEPT ![t].res = Err("H5Acreate2"), ![t].calls = @ + 2]
             /\ UNCHANGED <<refcount, obj>>
    /\ pc' = [pc EXCEPT ![t] = "fin_exit"]
    /\ UNCHANGED <<lock, objRefs, builders, threads, env, ix, out>>

\* Attribute::from_id(h5try!(H5Acreate2(parent.id(), name.as_ptr(),
\*     datatype.id(), dataspace.id(), H5P_DEFAULT, H5P_DEFAULT)))
FinH5Acreate2(t) ==
    /\ pc[t] = "fin_h5acreate2"
    /\ \E nativeOk \in BOOLEAN :
        IF nativeOk /\ H5Acreate2Valid(refcount, obj, loc[t].par, loc[t].dt, loc[t].ds)
        THEN LET id == NewId(refcount) IN
             /\ refcount' = Create(refcount, id)
             /\ obj' = [obj EXCEPT ![id] =
                          AttributeObj(obj, loc[t].par, loc[t].cname, loc[t].dt,
                                       loc[t].ds, H5P_DEFAULT, H5P_DEFAULT)]
             /\ loc' = [loc EXCEPT ![t].res = Ok(id), ![t].calls = @ + 1]
        ELSE /\ loc' = [loc EXCEPT ![t].res = Err("H5Acreate2"), ![t].calls = @ + 1]
             /\ UNCHANGED <<refcount, obj>>
    /\ pc' = [pc EXCEPT ![t] = "fin_exit"]
    /\ UNCHANGED <<lock, objRefs, builders, threads, env, ix, out>>

\* } : the locals of the block (name, dataspace, datatype) are dropped in
\* reverse order of their declaration, on every path out of the block.
DropTemp(rc, id) == IF id = H5I_INVALID_HID THEN rc ELSE HandleDecref(rc, id)
DropTempObj(rc, ob, id) == IF id = H5I_INVALID_HID THEN ob ELSE Released(rc, ob, id)
\* Mutant: the datatype is not dropped at the end of the block.
FinExitLeak(t) ==
    /\ pc[t] = "fin_exit"
    /\ LET rc1 == DropTemp(refcount, loc[t].ds)
       IN /\ refcount' = rc1
          /\ obj' = DropTempObj(rc1, obj, loc[t].ds)
    /\ loc' = [loc EXCEPT ![t].ds = H5I_INVALID_HID, ![t].dt = H5I_INVALID_HID,
                          ![t].cname = <<>>, ![t].par = H5I_INVALID_HID]
    /\ pc' = [pc EXCEPT ![t] = "fin_unlock"]
    /\ UNCHANGED <<lock, objRefs, builders, threads, env, ix, out>>

FinExit(t) ==
    /\ pc[t] = "fin_exit"
    /\ LET rc1 == DropTemp(refcount, loc[t].ds)
           ob1 == DropTempObj(rc1, obj, loc[t].ds)
           rc2 == DropTemp(rc1, loc[t].dt)
           ob2 == DropTempObj(rc2, ob1, loc[t].dt)
       IN /\ refcount' = rc2
          /\ obj' = ob2
    /\ loc' = [loc EXCEPT ![t].ds = H5I_INVALID_HID, ![t].dt = H5I_INVALID_HID,
                          ![t].cname = <<>>, ![t].par = H5I_INVALID_HID]
    /\ pc' = [pc EXCEPT ![t] = "fin_unlock"]
    /\ UNCHANGED <<lock, objRefs, builders, threads, env, ix, out>>

\* ) : the lock is released and finalize, then create, return the result.
FinUnlock(t) ==
    /\ pc[t] = "fin_unlock"
    /\ Release(t)
    /\ loc' = [loc EXCEPT ![t].snap = NoBuilder, ![t].rc0 = <<>>]
    /\ pc' = [pc EXCEPT ![t] = "create_done"]
    /\ UNCHANGED <<refcount, obj, objRefs, builders, threads, env, ix, out>>

\* The caller takes the result; an Attribute it got is dropped in the end.
CreateReturn(t) ==
    /\ pc[t] = "create_done" /\ LockFree
    /\ refcount' = ResultDrop(refcount, loc[t].res)
    /\ obj' = IF loc[t].res.ok THEN Released(refcount', obj, loc[t].res.id) ELSE obj
    /\ pc' = [pc EXCEPT ![t] = Idle]
    /\ loc' = [loc EXCEPT ![t] = NoLoc]
    /\ UNCHANGED <<lock, objRefs, builders, threads, env, ix, out>>

(* ----------------- accessors of a created Attribute ------------------- *)
RECURSIVE Product(_)
Product(s) == IF s = <<>> THEN 1 ELSE Head(s) * Product(Tail(s))
shape(id) == obj[id].dims
ndim(id) == Len(shape(id))
size(id) == Product(shape(id))
is_scalar(id) == ndim(id) = 0
\* Whether the object records modification times: only a creation property
\* list that asks for it turns it on.
tracks_times(id) == obj[id].acpl # H5P_DEFAULT

(* ----------------------------- build.rs ------------------------------ *)
\* Strings are sequences of characters; the literal pieces of a format
\* string are kept whole.
DepHdf5 == <<"D", "E", "P", "_", "H", "D", "F", "5", "_">>
KeyHaveDirect == DepHdf5 \o <<"H", "A", "V", "E", "_", "D", "I", "R", "E", "C", "T">>
KeyHaveStdbool == DepHdf5 \o <<"H", "A", "V", "E", "_", "S", "T", "D", "B", "O", "O", "L">>
KeyHaveParallel == DepHdf5 \o <<"H", "A", "V", "E", "_", "P", "A", "R", "A", "L", "L", "E", "L">>
KeyHaveThreadsafe ==
    DepHdf5 \o <<"H", "A", "V", "E", "_", "T", "H", "R", "E", "A", "D", "S", "A", "F", "E">>
VersionPrefix == DepHdf5 \o <<"V", "E", "R", "S", "I", "O", "N", "_">>

CargoCfg(flag) == <<"cargo:rustc-cfg=">> \o flag
H5HaveDirect == <<"h5_have_direct">>
H5HaveStdbool == <<"h5_have_stdbool">>
H5HaveParallel == <<"h5_have_parallel">>
H5HaveThreadsafe == <<"h5_have_threadsafe">>
Hdf5Flag(version) == <<"hdf5_">> \o version

\* str::starts_with
starts_with(s, pat) == Len(s) >= Len(pat) /\ SubSeq(s, 1, Len(pat)) = pat
\* str::trim_start_matches: every leading repetition of pat is removed.
RECURSIVE trim_start_matches(_, _)
trim_start_matches(s, pat) ==
    IF pat # <<>> /\ starts_with(s, pat)
    THEN trim_start_matches(SubSeq(s, Len(pat) + 1, Len(s)), pat)
    ELSE s

\* The names an environment may hold.
EnvKeys ==
    {KeyHaveDirect, KeyHaveStdbool, KeyHaveParallel, KeyHaveThreadsafe,
     VersionPrefix \o <<"1", "_", "1", "0">>,
     VersionPrefix,
     VersionPrefix \o VersionPrefix \o <<"1">>,
     KeyHaveDirect \o <<"_", "X">>,
     <<"X">> \o VersionPrefix \o <<"1">>,
     <<"P", "A", "T", "H">>}
\* An environment lists each name once, in no particular order.
Environments ==
    {e \in UNION {[1..n -> EnvKeys] : n \in 0..MaxVars} :
        \A i, j \in 1..Len(e) : e[i] = e[j] => i = j}

\* What one turn of the loop of main prints for the variable named key.
Lines(key) ==
    (IF key = KeyHaveDirect THEN <<CargoCfg(H5HaveDirect)>> ELSE <<>>)
    \o (IF key = KeyHaveStdbool THEN <<CargoCfg(H5HaveStdbool)>> ELSE <<>>)
    \o (IF key = KeyHaveParallel THEN <<CargoCfg(H5HaveParallel)>> ELSE <<>>)
    \o (IF key = KeyHaveThreadsafe THEN <<CargoCfg(H5HaveThreadsafe)>> ELSE <<>>)
    \o (IF starts_with(key, VersionPrefix)
        THEN <<CargoCfg(Hdf5Flag(trim_start_matches(key, VersionPrefix)))>>
        ELSE <<>>)

\* for (key, _) in std::env::vars() { ... }
BuildVar ==
    /\ ix < Len(env)
    /\ out' = out \o Lines(env[ix + 1])
    /\ ix' = ix + 1
    /\ UNCHANGED <<refcount, obj, lock, objRefs, builders, threads, pc, loc, env>>

BuildDone == ix = Len(env)

(* --------------------------- specifications --------------------------- *)
\* The caller has opened a Group and a Dataset and holds n wrappers of each.
InitHolding(n) ==
    /\ refcount = [i \in Ids |-> IF i \in ParentIds THEN n ELSE 0]
    /\ obj = [i \in Ids |-> IF i \in GroupIds THEN [kind |-> "group"]
                            ELSE IF i \in DatasetIds THEN [kind |-> "dataset"]
                            ELSE NoObj]
    /\ lock = {}
    /\ objRefs = [i \in ParentIds |-> n]
    /\ builders = [b \in Builders |-> NoBuilder]
    /\ pc = [t \in Threads |-> Idle]
    /\ loc = [t \in Threads |-> NoLoc]
    /\ ix = 0
    /\ out = <<>>

\* The arguments the calls are made with.
ParentArgs == ParentIds \cup {H5I_INVALID_HID}
TestShapes == {<<2, 3>>}      \* the shape of "name1" in test_shape_ndim_size

Init == InitHolding(1) /\ threads = {1} /\ env = <<>>
InitConc == InitHolding(MaxRefs) /\ threads = Threads /\ env = <<>>
\* The build script starts on any environment; no thread of the crate runs.
InitBuild == InitHolding(1) /\ threads = {} /\ env \in Environments
NextBuild == BuildVar

\* One caller: every operation of the builder, of its parents and clones.
Next ==
    \E t \in threads :
        \/ \E p \in GroupIds : CloneObj(t, p)
        \/ \E p \in GroupIds : DropObj(t, p)
        \/ \E p \in ParentArgs : NewLock(t, p)
        \/ NewTryNew(t)
        \/ NewIncref(t)
        \/ NewReturn(t)
        \/ \E p \in ParentArgs : NfdLock(t, p)
        \/ NfdTryNew(t)
        \/ NfdIncref(t)
        \/ NfdReturn(t)
        \/ \E b \in Builders, v \in BOOLEAN : Packed(t, b, v)
        \/ \E b \in Builders, v \in BOOLEAN : TrackTimes(t, b, v)
        \/ \E b \in Builders : CloneBuilder(t, b)
        \/ \E b \in Builders : DropBuilder(t, b)
        \/ \E b \in Builders, name \in Names, sh \in TestShapes, f, g \in BOOLEAN :
               CreateCall(t, b, name, sh, f, g)
        \/ FinLock(t)
        \/ FinDatatype(t)
        \/ FinParent(t)
        \/ FinDataspace(t)
        \/ FinName(t)
        \/ FinH5Acreate2(t)
        \/ FinExit(t)
        \/ FinUnlock(t)
        \/ CreateReturn(t)

\* One caller, one builder on the Group, every shape up to the bounds.
NextShape ==
    \E t \in threads :
        \/ NewLock(t, 1)
        \/ NewTryNew(t)
        \/ NewIncref(t)
        \/ NewReturn(t)
        \/ \E v \in BOOLEAN : Packed(t, 1, v)
        \/ \E name \in Names, sh \in Shapes, f, g \in BOOLEAN :
               CreateCall(t, 1, name, sh, f, g)
        \/ FinLock(t)
        \/ FinDatatype(t)
        \/ FinParent(t)
        \/ FinDataspace(t)
        \/ FinName(t)
        \/ FinH5Acreate2(t)
        \/ FinExit(t)
        \/ FinUnlock(t)
        \/ CreateReturn(t)
        \/ DropBuilder(t, 1)

\* Several threads calling new, new_from_dataset and create while handles
\* are cloned and dropped.
NextConc ==
    \E t \in threads :
        \/ \E p \in GroupIds : DropObj(t, p)
        \/ \E p \in ParentArgs : NewLock(t, p)
        \/ NewTryNew(t)
        \/ NewIncref(t)
        \/ NewReturn(t)
        \/ \E p \in ParentArgs : NfdLock(t, p)
        \/ NfdTryNew(t)
        \/ NfdIncref(t)
        \/ NfdReturn(t)
        \/ \E b \in Builders : CreateCall(t, b, <<"a">>, <<>>, FALSE, FALSE)
        \/ FinLock(t)
        \/ FinDatatype(t)
        \/ FinParent(t)
        \/ FinDataspace(t)
        \/ FinName(t)
        \/ FinH5Acreate2(t)
        \/ FinExit(t)
        \/ FinUnlock(t)
        \/ CreateReturn(t)

Spec == Init /\ [][Next]_vars
SpecShape == Init /\ [][NextShape]_vars
SpecConc == InitConc /\ [][NextConc]_vars
SpecBuild == InitBuild /\ [][NextBuild]_vars

(* ------------------------------- claims ------------------------------- *)
\* The wrappers that refer to an identifier: the caller's Groups and
\* Datasets, the parents stored in builders, and the handles held by a call
\* in progress (the new handle of a constructor, the datatype and dataspace
\* of finalize, the Attribute it returned).
Count(S) == Cardinality(S)
Wrappers(id) ==
    (IF id \in ParentIds THEN objRefs[id] ELSE 0)
    + Count({b \in Builders : builders[b] # NoBuilder /\ builders[b].parent = Ok(id)})
    + Count({t \in threads : loc[t].handle = Ok(id)})
    + Count({t \in threads : loc[t].dt = id})
    + Count({t \in threads : loc[t].ds = id})
    + Count({t \in threads : loc[t].res = Ok(id)})

\* C1: the resource behind an identifier is never released while a wrapper
\* refers to it, and it is released once no wrapper refers to it.
C1_ReleasedWithLastWrapper ==
    \A id \in Ids :
        /\ Wrappers(id) > 0 => refcount[id] > 0 /\ obj[id] # NoObj
        /\ Wrappers(id) = 0 => refcount[id] = 0 /\ obj[id] = NoObj

\* C1 witness: the caller has dropped every Group wrapper and the parent
\* stored in a builder is the last wrapper of the Group, which is still open.
C1_Witness ==
    \E b \in Builders, g \in GroupIds :
        /\ builders[b] # NoBuilder /\ builders[b].parent = Ok(g)
        /\ objRefs[g] = 0 /\ Wrappers(g) = 1 /\ refcount[g] = 1

\* C2: a create makes at most one H5Acreate2 call, exactly one when it
\* returns Ok, and the setters packed and track_times touch neither the
\* library nor the call count.
C2_SingleNativeCall ==
    /\ [](\A t \in threads :
            /\ loc[t].calls <= 1
            /\ pc[t] = "create_done" /\ loc[t].res.ok => loc[t].calls = 1)
    /\ [][\A t \in threads :
            (\E b \in Builders, v \in BOOLEAN : Packed(t, b, v) \/ TrackTimes(t, b, v))
                => UNCHANGED <<refcount, obj, loc>>]_vars

\* C2 witness: a create has returned Ok after one H5Acreate2 call, on a
\* builder whose setters had been used.
C2_Witness ==
    \E t \in threads :
        /\ pc[t] = "create_done" /\ loc[t].res.ok /\ loc[t].calls = 1
        /\ builders[loc[t].b].packed /\ builders[loc[t].b].track_times

\* C3 (as claimed): an attribute is created with time tracking enabled
\* exactly when the builder's track_times option is set.
C3_TrackTimesReachesCreation ==
    \A t \in threads :
        pc[t] = "create_done" /\ loc[t].res.ok
            => tracks_times(loc[t].res.id) = builders[loc[t].b].track_times

\* C4: the attribute created from a shape reports that shape, its length
\* as ndim, the product of its extents as size, and is scalar exactly when
\* the shape is empty.
C4_ShapeNdimSize ==
    \A t \in threads :
        pc[t] = "create_done" /\ loc[t].res.ok =>
            /\ shape(loc[t].res.id) = loc[t].shape
            /\ ndim(loc[t].res.id) = Len(loc[t].shape)
            /\ size(loc[t].res.id) = Product(loc[t].shape)
            /\ is_scalar(loc[t].res.id) <=> loc[t].shape = <<>>

\* C4 witness: an attribute of shape (2, 2) has been created.
C4_Witness ==
    \E t \in threads :
        /\ pc[t] = "create_done" /\ loc[t].res.ok
        /\ loc[t].shape = <<2, 2>>
        /\ ndim(loc[t].res.id) = 2 /\ size(loc[t].res.id) = 4

\* C5 (as claimed): when the build script is done, it has printed one line
\* per HAVE variable present, one line hdf5_<rest of the name after the
\* prefix> per DEP_HDF5_VERSION_ variable, and nothing else.
RestAfter(key, pat) == SubSeq(key, Len(pat) + 1, Len(key))
ClaimedLines(key) ==
    (IF key = KeyHaveDirect THEN {CargoCfg(H5HaveDirect)} ELSE {})
    \cup (IF key = KeyHaveStdbool THEN {CargoCfg(H5HaveStdbool)} ELSE {})
    \cup (IF key = KeyHaveParallel THEN {CargoCfg(H5HaveParallel)} ELSE {})
    \cup (IF key = KeyHaveThreadsafe THEN {CargoCfg(H5HaveThreadsafe)} ELSE {})
    \cup (IF starts_with(key, VersionPrefix)
          THEN {CargoCfg(Hdf5Flag(RestAfter(key, VersionPrefix)))}
          ELSE {})
C5_FlagsForwarded ==
    BuildDone =>
        /\ {out[i] : i \in 1..Len(out)} = UNION {ClaimedLines(env[i]) : i \in 1..Len(env)}
        /\ Len(out) = Count({i \in 1..Len(env) : ClaimedLines(env[i]) # {}})

\* C6: a constructor increments the count of a valid parent exactly once
\* and stores the handle; on an invalid parent it increments nothing and
\* stores the error, and every create on such a builder returns an error
\* without an H5Acreate2 call.
C6_ParentStoredOrError ==
    \A t \in threads :
        /\ pc[t] \in {"new_build", "nfd_build"} =>
              IF is_valid_user_id(loc[t].rc0, loc[t].p)
              THEN /\ loc[t].handle = Ok(loc[t].p)
                   /\ refcount = [loc[t].rc0 EXCEPT ![loc[t].p] = @ + 1]
              ELSE /\ loc[t].handle = Err("InvalidHandle")
                   /\ refcount = loc[t].rc0
        /\ pc[t] = "create_done" /\ ~builders[loc[t].b].parent.ok =>
              ~loc[t].res.ok /\ loc[t].calls = 0

\* C6 witness: a create on a builder of an invalid parent has returned the
\* stored error.
C6_Witness ==
    \E t \in threads :
        /\ pc[t] = "create_done"
        /\ ~builders[loc[t].b].parent.ok
        /\ loc[t].res = Err("InvalidHandle") /\ loc[t].calls = 0

\* C7: create returns the error of the first step that fails, in the order
\* datatype, parent, dataspace, name, and makes no H5Acreate2 call after it;
\* when H5Acreate2 fails, create returns an error and no Attribute exists.
C7_FirstFailureReturned ==
    \A t \in threads :
        pc[t] = "create_done" =>
            LET l == loc[t]
                parent == builders[l.b].parent
            IN /\ IF l.dtFail THEN l.res = Err("datatype") /\ l.calls = 0
                  ELSE IF ~parent.ok THEN l.res = Err(parent.err) /\ l.calls = 0
                  ELSE IF l.dsFail THEN l.res = Err("dataspace") /\ l.calls = 0
                  ELSE IF HasNul(l.name) THEN l.res = Err("cstring") /\ l.calls = 0
                  ELSE l.calls = 1 /\ (l.res.ok \/ l.res = Err("H5Acreate2"))
               /\ ~l.res.ok => \A i \in Ids : obj[i].kind # "attribute"

\* C7 witness: every step of the call would fail, and the datatype's error,
\* the first one, is what create returned.
C7_Witness ==
    \E t \in threads :
        /\ pc[t] = "create_done"
        /\ loc[t].dtFail /\ loc[t].dsFail /\ HasNul(loc[t].name)
        /\ ~builders[loc[t].b].parent.ok
        /\ loc[t].res = Err("datatype")

\* C8: during and at the end of finalize the builder is as it was when the
\* call began; when the block is left the datatype and the dataspace are
\* released, only a returned Attribute is left of what the call created, and
\* the reference count of every parent is what it was.
C8_BuilderAndCountsUnchanged ==
    \A t \in threads :
        /\ pc[t] \in FinPcs => builders[loc[t].b] = loc[t].snap
        /\ pc[t] = "fin_unlock" =>
              /\ \A i \in ParentIds : refcount[i] = loc[t].rc0[i]
              /\ \A i \in PoolIds : refcount[i] > 0 => loc[t].res = Ok(i)
              /\ loc[t].dt = H5I_INVALID_HID /\ loc[t].ds = H5I_INVALID_HID

\* C8 witness: a successful create on a packed builder leaves the block.
C8_Witness ==
    \E t \in threads :
        /\ pc[t] = "fin_unlock" /\ loc[t].res.ok
        /\ loc[t].snap.packed /\ loc[t].snap.parent.ok

\* C9: at most one thread is inside a locked section, it holds the lock,
\* and nothing another thread does to the reference counts falls between
\* the steps of its section: the counts are those it found when it took the
\* lock, changed only by its own step.
OwnCounts(t) ==
    IF pc[t] \in {"new_build", "nfd_build"} /\ loc[t].handle.ok
    THEN [loc[t].rc0 EXCEPT ![loc[t].p] = @ + 1]
    ELSE loc[t].rc0
C9_LockedSectionsExclusive ==
    /\ Count({t \in threads : pc[t] \in LockedPcs}) <= 1
    /\ \A t \in threads :
        pc[t] \in LockedPcs =>
            /\ lock = {t}
            /\ \A i \in ParentIds : refcount[i] = OwnCounts(t)[i]

\* C9 witness: one thread is between the validity check and the increment
\* of new while another waits for the lock in create.
C9_Witness ==
    \E t, u \in threads :
        /\ t # u
        /\ pc[t] = "new_incref" /\ loc[t].handle.ok
        /\ pc[u] = "fin_lock"

====
